---------------------------- MODULE Spec2Model ----------------------------
(***************************************************************************)
(* VintageFinance front-end: a model of static/js/main.js (form guard,     *)
(* notification toasts) and static/js/charts.js (chart construction,       *)
(* update/destroy/resize helpers, debounced window resize).                *)
(*                                                                         *)
(* JavaScript runs every handler to completion, so each handler is one     *)
(* action.  Timers are records holding the time left until they are due;   *)
(* Tick lets one TickMs of time pass and is only possible while no pending *)
(* timer is due, so a timer fires at the instant its delay has elapsed.    *)
(* Strings that the code builds character by character (toFixed) are       *)
(* sequences of one-character strings.                                     *)
(***************************************************************************)
EXTENDS Integers, Sequences, FiniteSets, TLC

VARIABLES
    doc,            \* main.js: the .notification-toast elements attached to document.body
    toastTimers,    \* main.js: pending setTimeout callbacks of showNotification
    nextToast,      \* main.js: identity of the next element document.createElement returns
    toastAge,       \* for each attached toast, the ticks since showNotification appended it
    hasButton,      \* main.js: whether form.querySelector('button[type="submit"]') finds a button
    button,         \* main.js: the submit button's disabled flag and innerHTML
    fields,         \* main.js: the value of each [required] field of the form
    invalid,        \* main.js: the required fields carrying the class is-invalid
    fallback,       \* main.js: pending 3-second callbacks, oldest first, each with its originalText
    page,           \* main.js: "loaded", "submitting" (a submission went through) or "unloaded"
    submits,        \* number of submit events so far
    call,           \* charts.js: the helper being called and its arguments
    ret,            \* charts.js: what that helper returned
    charts,         \* charts.js: every Chart object built so far; a handle is its index
    instances,      \* charts.js: Chart.instances, the handles of the live charts
    domLoaded,      \* charts.js: whether DOMContentLoaded has fired
    resizeListeners, \* charts.js: number of resize listeners on window
    resizeTimers,   \* charts.js: pending debounce timers, each with its id and time left
    resizeTimeout,  \* charts.js: the closure variable resizeTimeout (0: undefined)
    sinceResize,    \* ticks since the last resize event, counted up to the debounce delay
    burstPasses,    \* resize passes run since the current burst of resize events began
    amount,         \* main.js: the input[name="amount"] field: its value and its is-invalid class
    loading,        \* main.js: for each loading element, whether it carries the class loading
    pendingCalls,   \* main.js: the withLoading calls made so far, each with its promise
    libraries,      \* the third-party globals defined on the page: Chart, feather, bootstrap
    pageElements,   \* how many .vintage-form and [data-bs-toggle="tooltip"] elements the page has
    scriptState,    \* for main.js and charts.js: waiting to run, run to the end, or stopped by an error
    loadListeners,  \* the DOMContentLoaded listeners the scripts added, in order
    globals,        \* the properties the scripts have set on window
    initRan,        \* the initialization steps run so far, in order
    uncaught,       \* the errors no handler caught, in order
    lastCall        \* the handler that ran last, with what it was given and how it ended

toastVars == <<doc, toastTimers, nextToast, toastAge>>
formVars == <<hasButton, button, fields, invalid, fallback, page, submits>>
calcVars == <<call, ret>>
chartVars == <<charts, instances>>
resizeVars == <<domLoaded, resizeListeners, resizeTimers, resizeTimeout, sinceResize, burstPasses>>
amountVars == <<amount>>
loadingVars == <<loading, pendingCalls>>
loadVars == <<libraries, pageElements, scriptState, loadListeners, globals, initRan, uncaught>>
nonToastVars == <<formVars, calcVars, chartVars, resizeVars, amountVars, loadingVars, loadVars>>
nonFormVars == <<calcVars, chartVars, resizeVars, amountVars, loadingVars, loadVars>>
nonCalcVars == <<toastVars, formVars, chartVars, resizeVars, amountVars, loadingVars, loadVars, lastCall>>
nonChartVars == <<toastVars, formVars, calcVars, amountVars, loadingVars, loadVars>>
vars == <<doc, toastTimers, nextToast, toastAge,
          hasButton, button, fields, invalid, fallback, page, submits,
          call, ret,
          charts, instances,
          domLoaded, resizeListeners, resizeTimers, resizeTimeout, sinceResize, burstPasses,
          amount,
          loading, pendingCalls,
          libraries, pageElements, scriptState, loadListeners, globals, initRan, uncaught,
          lastCall>>

---------------------------------------------------------------------------
(* Bounds of the model *)

\* showNotification is called at most MaxToasts times in a behaviour.
MaxToasts == 2

\* The form has NumFields required fields and sees at most MaxSubmits submit events.
NumFields == 2
MaxSubmits == 3

---------------------------------------------------------------------------
(* Delays, in milliseconds, as the code passes them to setTimeout *)

AutoDismissMs == 5000
ExitAnimationMs == 300
FallbackMs == 3000
ResizeDebounceMs == 300

RECURSIVE GCD(_, _)
GCD(a, b) == IF b = 0 THEN a ELSE GCD(b, a % b)

\* One step of the clock: the largest unit that divides every delay.
TickMs == GCD(GCD(AutoDismissMs, ExitAnimationMs), GCD(FallbackMs, ResizeDebounceMs))

Ticks(ms) == ms \div TickMs

---------------------------------------------------------------------------
(* Values handed to the handlers *)

Messages == {"Saved.", "Please fill in all required fields."}
Severities == {"info", "error"}

Idle == [fn |-> "none"]

\* No helper call in progress, nothing returned.
NoCall == [fn |-> "none"]
NoValue == [t |-> "none"]

CalcIdle ==
    /\ call = NoCall
    /\ ret = NoValue

\* The amount field as the template renders it: empty and unmarked.
AmountInit == amount = [value |-> <<>>, invalid |-> FALSE]

\* Elements a caller hands to withLoading as loadingElement; 0 stands for
\* null, the default.
NumLoadingElements == 2
LoadingElements == 1..NumLoadingElements
NoElement == 0

\* No element carries the class loading, withLoading has not been called.
LoadingInit ==
    /\ loading = [e \in LoadingElements |-> FALSE]
    /\ pendingCalls = <<>>

\* The optional third-party libraries and the two scripts of the page.
AllLibraries == {"Chart", "feather", "bootstrap"}
Scripts == {"main.js", "charts.js"}

\* Both scripts have run on a page that has every library; DOMContentLoaded
\* has not fired yet.
ScriptsLoaded ==
    /\ libraries = AllLibraries
    /\ pageElements = [forms |-> 1, tooltips |-> 0]
    /\ scriptState = [sc \in Scripts |-> "done"]
    /\ loadListeners = <<"initializeApp", "initializeResponsiveCharts">>
    /\ globals = {"VintageFinance", "VintageCharts"}
    /\ initRan = <<>>
    /\ uncaught = <<>>

\* No chart built, the page still loading, no resize event seen.
ChartInit ==
    /\ charts = <<>>
    /\ instances = {}
    /\ domLoaded = FALSE
    /\ resizeListeners = 0
    /\ resizeTimers = {}
    /\ resizeTimeout = 0
    /\ sinceResize = Ticks(ResizeDebounceMs)
    /\ burstPasses = 0

---------------------------------------------------------------------------
(* main.js: showNotification *)

\* The element showNotification builds (lines 265-271): class and icon follow
\* type === 'error', the message is the element's text, the entry animation
\* is set by the inline style (line 281).
ToastElement(id, message, type) ==
    [id        |-> id,
     message   |-> message,
     className |-> IF type = "error" THEN "vintage-alert-error" ELSE "vintage-alert-success",
     icon      |-> IF type = "error" THEN "alert-circle" ELSE "check-circle",
     animation |-> "slideInRight"]

\* A variant that appends the new toast without removing the existing ones.
ShowNotificationKeepOld(message, type) ==
    /\ doc' = doc \cup {ToastElement(nextToast, message, type)}
    /\ toastTimers' = toastTimers \cup
           {[kind |-> "autoDismiss", toast |-> nextToast, left |-> Ticks(AutoDismissMs)]}
    /\ nextToast' = nextToast + 1
    /\ toastAge' = toastAge @@ (nextToast :> 0)

\* showNotification(message, type): removes every existing toast, appends the
\* new one, starts its 5-second timer.
ShowNotification(message, type) ==
    /\ doc' = {ToastElement(nextToast, message, type)}
    /\ toastTimers' = toastTimers \cup
           {[kind |-> "autoDismiss", toast |-> nextToast, left |-> Ticks(AutoDismissMs)]}
    /\ nextToast' = nextToast + 1
    /\ toastAge' = (nextToast :> 0)

\* A caller (page script, through window.VintageFinance) shows a notification.
Show(message, type) ==
    /\ nextToast <= MaxToasts
    /\ ShowNotification(message, type)
    /\ lastCall' = [fn |-> "showNotification", message |-> message, type |-> type,
                    removed |-> Cardinality(doc)]
    /\ UNCHANGED nonToastVars

\* The close button of an attached toast: onclick="this.parentElement.remove()".
CloseClick(t) ==
    /\ t \in doc
    /\ doc' = doc \ {t}
    /\ toastAge' = [id \in (DOMAIN toastAge) \ {t.id} |-> toastAge[id]]
    /\ lastCall' = [fn |-> "closeClick", toast |-> t.id]
    /\ UNCHANGED <<toastTimers, nextToast>>
    /\ UNCHANGED nonToastVars

Attached(id) == \E t \in doc : t.id = id

\* A variant of the 5-second callback that starts the exit animation and
\* sets no removal timer.
AutoDismissFireNoRemoval(tm) ==
    /\ tm \in toastTimers
    /\ tm.kind = "autoDismiss"
    /\ tm.left = 0
    /\ doc' = {IF t.id = tm.toast
               THEN [t EXCEPT !.animation = "slideOutRight"]
               ELSE t : t \in doc}
    /\ toastTimers' = toastTimers \ {tm}
    /\ lastCall' = [fn |-> "autoDismiss", toast |-> tm.toast, attached |-> Attached(tm.toast)]
    /\ UNCHANGED <<nextToast, toastAge>>
    /\ UNCHANGED nonToastVars

\* The 5-second callback (lines 293-298): if the element is still attached
\* it gets the exit animation and a 300 ms removal timer; otherwise nothing.
AutoDismissFire(tm) ==
    /\ tm \in toastTimers
    /\ tm.kind = "autoDismiss"
    /\ tm.left = 0
    /\ IF Attached(tm.toast)
       THEN /\ doc' = {IF t.id = tm.toast
                       THEN [t EXCEPT !.animation = "slideOutRight"]
                       ELSE t : t \in doc}
            /\ toastTimers' = (toastTimers \ {tm}) \cup
                   {[kind |-> "remove", toast |-> tm.toast, left |-> Ticks(ExitAnimationMs)]}
       ELSE /\ doc' = doc
            /\ toastTimers' = toastTimers \ {tm}
    /\ lastCall' = [fn |-> "autoDismiss", toast |-> tm.toast, attached |-> Attached(tm.toast)]
    /\ UNCHANGED <<nextToast, toastAge>>
    /\ UNCHANGED nonToastVars

\* A variant of the 300 ms callback that removes whatever toast is in the
\* document instead of the element its closure holds.
RemoveFireAnyToast(tm) ==
    /\ tm \in toastTimers
    /\ tm.kind = "remove"
    /\ tm.left = 0
    /\ doc' = {}
    /\ toastTimers' = toastTimers \ {tm}
    /\ toastAge' = <<>>
    /\ lastCall' = [fn |-> "removeToast", toast |-> tm.toast, attached |-> Attached(tm.toast)]
    /\ UNCHANGED nextToast
    /\ UNCHANGED nonToastVars

\* The 300 ms callback (line 296): notification.remove(), a no-op on a
\* detached element.
RemoveFire(tm) ==
    /\ tm \in toastTimers
    /\ tm.kind = "remove"
    /\ tm.left = 0
    /\ doc' = {t \in doc : t.id # tm.toast}
    /\ toastTimers' = toastTimers \ {tm}
    /\ toastAge' = [id \in (DOMAIN toastAge) \ {tm.toast} |-> toastAge[id]]
    /\ lastCall' = [fn |-> "removeToast", toast |-> tm.toast, attached |-> Attached(tm.toast)]
    /\ UNCHANGED nextToast
    /\ UNCHANGED nonToastVars

\* TickMs of time pass for the toast timers.
ToastTick ==
    /\ toastTimers # {}
    /\ \A tm \in toastTimers : tm.left > 0
    /\ toastTimers' = {[tm EXCEPT !.left = @ - 1] : tm \in toastTimers}
    /\ toastAge' = [id \in DOMAIN toastAge |-> toastAge[id] + 1]
    /\ UNCHANGED <<doc, nextToast, lastCall>>
    /\ UNCHANGED nonToastVars

ToastInit ==
    /\ doc = {}
    /\ toastTimers = {}
    /\ nextToast = 1
    /\ toastAge = <<>>

---------------------------------------------------------------------------
(* main.js: handleFormSubmit *)

\* The button's markup as the template renders it, and the markup line 121
\* puts in its place.
OriginalLabel == "Save"
BusyLabel == "<i data-feather=\"loader\" class=\"spinning\"></i> Processing..."

\* What the user can type into a required field.
FieldValues == {<<>>, <<" ">>, <<"r">>, <<" ", "r", " ">>}

IsSpace(c) == c = " "

\* String.prototype.trim: strips leading and trailing white space.
RECURSIVE TrimLeft(_)
TrimLeft(s) == IF s # <<>> /\ IsSpace(Head(s)) THEN TrimLeft(Tail(s)) ELSE s

RECURSIVE TrimRight(_)
TrimRight(s) ==
    IF s # <<>> /\ IsSpace(s[Len(s)]) THEN TrimRight(SubSeq(s, 1, Len(s) - 1)) ELSE s

Trim(s) == TrimRight(TrimLeft(s))

\* !field.value.trim()
IsBlank(f) == Trim(fields[f]) = <<>>

\* The required-field pass (lines 137-144): the class is added to every blank
\* field and removed from every other one.
MarkedAfterValidation == {f \in DOMAIN fields : IsBlank(f)}

\* handleFormSubmit(event), lines 113-154.  With a submit button: it is
\* disabled, its markup saved in the block-scoped originalText and replaced,
\* and the 3-second callback queued.  Then the required fields are marked.
\* If one is blank: preventDefault, the button is re-enabled (line 149), and
\* line 150 reads originalText outside the block that declares it, which
\* raises ReferenceError before showNotification is reached.  Without a
\* submit button lines 148-151 are skipped and the toast is shown.
HandleFormSubmit ==
    LET marked == MarkedAfterValidation
        isValid == \A f \in DOMAIN fields : ~IsBlank(f)
        raises == ~isValid /\ hasButton
    IN  /\ invalid' = marked
        /\ fallback' = IF hasButton THEN Append(fallback, button.innerHTML) ELSE fallback
        /\ button' = IF ~hasButton THEN button
                     ELSE IF isValid THEN [disabled |-> TRUE, innerHTML |-> BusyLabel]
                     ELSE [disabled |-> FALSE, innerHTML |-> BusyLabel]
        /\ IF ~isValid /\ ~hasButton
           THEN ShowNotification("Please fill in all required fields.", "error")
           ELSE UNCHANGED toastVars
        /\ page' = IF isValid THEN "submitting" ELSE page
        /\ lastCall' = [fn |-> "handleFormSubmit",
                        prevented |-> ~isValid,
                        raised |-> IF raises THEN "ReferenceError" ELSE "none",
                        notified |-> ~isValid /\ ~hasButton]

\* A submit event on the form.  The user can only cause one while the submit
\* button, if there is one, is enabled.
Submit ==
    /\ page # "unloaded"
    /\ submits < MaxSubmits
    /\ hasButton => ~button.disabled
    /\ HandleFormSubmit
    /\ submits' = submits + 1
    /\ UNCHANGED <<hasButton, fields>>
    /\ UNCHANGED nonFormVars

\* The oldest 3-second callback runs (lines 124-130): equal delays fire in
\* the order they were set.
FallbackFire ==
    /\ page # "unloaded"
    /\ fallback # <<>>
    /\ button' = [disabled |-> FALSE, innerHTML |-> Head(fallback)]
    /\ fallback' = Tail(fallback)
    /\ lastCall' = [fn |-> "fallbackTimer"]
    /\ UNCHANGED <<hasButton, fields, invalid, page, submits>>
    /\ UNCHANGED toastVars
    /\ UNCHANGED nonFormVars

\* The user edits a required field.
EditField(f, v) ==
    /\ page # "unloaded"
    /\ f \in DOMAIN fields
    /\ fields[f] # v
    /\ fields' = [fields EXCEPT ![f] = v]
    /\ lastCall' = [fn |-> "edit"]
    /\ UNCHANGED <<hasButton, button, invalid, fallback, page, submits>>
    /\ UNCHANGED toastVars
    /\ UNCHANGED nonFormVars

\* A submission that was not cancelled replaces the page; its timers are gone.
Navigate ==
    /\ page = "submitting"
    /\ page' = "unloaded"
    /\ fallback' = <<>>
    /\ lastCall' = [fn |-> "navigate"]
    /\ UNCHANGED <<hasButton, button, fields, invalid, submits>>
    /\ UNCHANGED toastVars
    /\ UNCHANGED nonFormVars

FormInit ==
    /\ button = [disabled |-> FALSE, innerHTML |-> OriginalLabel]
    /\ fields = [f \in 1..NumFields |-> <<>>]
    /\ invalid = {}
    /\ fallback = <<>>
    /\ page = "loaded"
    /\ submits = 0

InitForm ==
    /\ ToastInit
    /\ FormInit
    /\ ChartInit
    /\ AmountInit
    /\ LoadingInit
    /\ ScriptsLoaded
    /\ CalcIdle
    /\ hasButton \in BOOLEAN
    /\ lastCall = Idle

NextForm ==
    \/ Submit
    \/ FallbackFire
    \/ \E f \in 1..NumFields, v \in FieldValues : EditField(f, v)
    \/ Navigate

SpecForm == InitForm /\ [][NextForm]_vars

---------------------------------------------------------------------------
(* The toast life cycle: shows, manual closes, timers, time *)

InitToast ==
    /\ ToastInit
    /\ FormInit
    /\ ChartInit
    /\ AmountInit
    /\ LoadingInit
    /\ ScriptsLoaded
    /\ CalcIdle
    /\ hasButton = TRUE
    /\ lastCall = Idle

NextToast ==
    \/ \E m \in Messages, s \in Severities : Show(m, s)
    \/ \E t \in doc : CloseClick(t)
    \/ \E tm \in toastTimers : AutoDismissFire(tm)
    \/ \E tm \in toastTimers : RemoveFire(tm)
    \/ ToastTick

SpecToast == InitToast /\ [][NextToast]_vars

\* The same life cycle with time passing and due callbacks run: the page
\* stays open, so the event loop runs every timer callback that is due.
SpecToastFair ==
    /\ SpecToast
    /\ WF_vars(ToastTick)
    /\ WF_vars(\E tm \in toastTimers : AutoDismissFire(tm))
    /\ WF_vars(\E tm \in toastTimers : RemoveFire(tm))

---------------------------------------------------------------------------
(* C1 *)

\* C1: after any sequence of shows, close clicks and timer firings the
\* document holds at most one toast; right after showNotification(m, type)
\* it holds exactly one, the element that call created, carrying m.
C1_AtMostOneToastNewestMessage ==
    /\ Cardinality(doc) <= 1
    /\ lastCall.fn = "showNotification" =>
          \E t \in doc :
              /\ doc = {t}
              /\ t.id = nextToast - 1
              /\ t.message = lastCall.message

\* A second notification was shown while the first was still in the document.
C1_Witness_SecondShowReplacedVisible ==
    /\ lastCall.fn = "showNotification"
    /\ lastCall.removed = 1
    /\ nextToast = 3

---------------------------------------------------------------------------
(* C3, C4 *)

\* C3: when a form with a submit button is submitted with a blank required
\* field, handleFormSubmit cancels the submission, marks exactly the blank
\* required fields invalid, shows an error toast and does not throw.
C3_InvalidSubmitCancelsMarksNotifiesNoThrow ==
    (/\ lastCall.fn = "handleFormSubmit"
     /\ hasButton
     /\ \E f \in DOMAIN fields : IsBlank(f))
    => /\ lastCall.prevented
       /\ invalid = {f \in DOMAIN fields : IsBlank(f)}
       /\ \E t \in doc : t.id = nextToast - 1 /\ t.className = "vintage-alert-error"
       /\ lastCall.raised = "none"

\* C4: once every pending 3-second callback has run, the submit button is
\* enabled and shows the markup it had before the first submit.
C4_ButtonRestoredWhenNoTimerPending ==
    (hasButton /\ page # "unloaded" /\ fallback = <<>>)
    => (~button.disabled /\ button.innerHTML = OriginalLabel)

---------------------------------------------------------------------------
(* JavaScript values used by charts.js *)

\* A Number: a finite rational n/d (d > 0), NaN, or an infinity (n is its sign).
Num(i) == [k |-> "finite", n |-> i, d |-> 1]
NaN == [k |-> "NaN", n |-> 0, d |-> 1]
Infinity(sign) == [k |-> "Infinity", n |-> sign, d |-> 1]

Abs(i) == IF i < 0 THEN -i ELSE i
Sign(i) == IF i < 0 THEN -1 ELSE 1
Min(a, b) == IF a <= b THEN a ELSE b

\* a / b on integers: IEEE division, so x/0 is NaN or an infinity, never a fault.
JsDiv(a, b) ==
    IF b = 0
    THEN IF a = 0 THEN NaN ELSE Infinity(Sign(a))
    ELSE [k |-> "finite", n |-> a * Sign(b), d |-> Abs(b)]

\* x * c for an integer c > 0.
JsTimes(x, c) == IF x.k = "finite" THEN [x EXCEPT !.n = @ * c] ELSE x

DigitChars == <<"0", "1", "2", "3", "4", "5", "6", "7", "8", "9">>

RECURSIVE NatToStr(_)
NatToStr(i) ==
    IF i < 10 THEN <<DigitChars[i + 1]>>
    ELSE NatToStr(i \div 10) \o <<DigitChars[(i % 10) + 1]>>

RECURSIVE Pow10(_)
Pow10(f) == IF f = 0 THEN 1 ELSE 10 * Pow10(f - 1)

RECURSIVE ZeroPad(_, _)
ZeroPad(s, width) == IF Len(s) >= width THEN s ELSE ZeroPad(<<"0">> \o s, width)

\* Number.prototype.toFixed(f): "NaN" and "Infinity" for the non-finite
\* values; otherwise the integer m nearest to |x| * 10^f (the larger one on
\* a tie), written with f digits after the point and the sign of x in front.
ToFixed(x, f) ==
    IF x.k = "NaN" THEN <<"N", "a", "N">>
    ELSE IF x.k = "Infinity"
    THEN (IF x.n < 0 THEN <<"-">> ELSE <<>>) \o <<"I", "n", "f", "i", "n", "i", "t", "y">>
    ELSE LET scaled == Abs(x.n) * Pow10(f)
             q == scaled \div x.d
             r == scaled % x.d
             m == IF 2 * r >= x.d THEN q + 1 ELSE q
         IN  (IF x.n < 0 THEN <<"-">> ELSE <<>>)
             \o NatToStr(m \div Pow10(f))
             \o (IF f = 0 THEN <<>> ELSE <<".">> \o ZeroPad(NatToStr(m % Pow10(f)), f))

JsString(s) == [t |-> "string", s |-> s]
JsNumber(x) == [t |-> "number", x |-> x]

\* array[i] with a 0-based index: undefined outside the array.
Undefined == "undefined"
ArrayGet(arr, i) == IF (i + 1) \in DOMAIN arr THEN arr[i + 1] ELSE Undefined

\* array.slice(0, end)
SliceFromStart(arr, end) == SubSeq(arr, 1, Min(end, Len(arr)))

\* array.reduce((a, b) => a + b, 0)
RECURSIVE SumOf(_)
SumOf(arr) == IF arr = <<>> THEN 0 ELSE Head(arr) + SumOf(Tail(arr))

---------------------------------------------------------------------------
(* charts.js: VintageColors *)

VintagePrimary == "#6A7A5A"
VintageSecondary == "#8DAF98"

VintagePalette ==
    <<"#6A7A5A", "#8DAF98", "#BED2BA", "#D7CBB2", "#A8C7BA",
      "#7A8B6A", "#9DBF88", "#CEE2CA", "#E2D6C2", "#B8D7CA">>

IncomeColors == <<"#6A7A5A", "#8DAF98", "#BED2BA", "#A8C7BA", "#7A8B6A", "#9DBF88">>

ExpenseColors == <<"#BF8A7D", "#D7CBB2", "#C7B299", "#B8A485", "#A99571", "#9A875D">>

---------------------------------------------------------------------------
(* charts.js: chart constructors, as the configuration handed to new Chart *)

\* createMonthlyTrendChart(ctx, data), lines 103-201: labels and three
\* datasets, each a map over data in order.
MapField(data, field) == [k \in 1..Len(data) |-> data[k][field]]

\* A variant whose expense series reads the income field.
createMonthlyTrendChartSwapped(data) ==
    [type |-> "line",
     labels |-> MapField(data, "month"),
     datasets |-> <<
        [label |-> "Income", data |-> MapField(data, "income"),
         borderColor |-> VintagePrimary, fill |-> FALSE],
        [label |-> "Expenses", data |-> MapField(data, "income"),
         borderColor |-> ExpenseColors[1], fill |-> FALSE],
        [label |-> "Net Balance", data |-> MapField(data, "balance"),
         borderColor |-> VintageSecondary, fill |-> TRUE]>>]

createMonthlyTrendChart(data) ==
    [type |-> "line",
     labels |-> MapField(data, "month"),
     datasets |-> <<
        [label |-> "Income", data |-> MapField(data, "income"),
         borderColor |-> VintagePrimary, fill |-> FALSE],
        [label |-> "Expenses", data |-> MapField(data, "expense"),
         borderColor |-> ExpenseColors[1], fill |-> FALSE],
        [label |-> "Net Balance", data |-> MapField(data, "balance"),
         borderColor |-> VintageSecondary, fill |-> TRUE]>>]

\* A variant that takes the income colours whatever the type.
createCategoryDoughnutChartIncomeOnly(labels, values, type) ==
    [type |-> "doughnut",
     labels |-> labels,
     datasets |-> <<[data |-> values,
                     backgroundColor |-> SliceFromStart(IncomeColors, Len(labels))]>>]

\* createCategoryDoughnutChart(ctx, labels, values, type), lines 206-248:
\* backgroundColor is colors.slice(0, labels.length).
createCategoryDoughnutChart(labels, values, type) ==
    LET colors == IF type = "income" THEN IncomeColors ELSE ExpenseColors
    IN  [type |-> "doughnut",
         labels |-> labels,
         datasets |-> <<[data |-> values,
                         backgroundColor |-> SliceFromStart(colors, Len(labels))]>>]

\* { ...base, ...over }: the fields of base, those of over added or put in
\* their place.
Spread(base, over) ==
    [f \in (DOMAIN base) \cup (DOMAIN over) |-> IF f \in DOMAIN over THEN over[f] ELSE base[f]]

\* A variant that indexes the palette without wrapping around.
BarDatasetColorNoWrap(index) == ArrayGet(VintagePalette, index)

\* VintageColors.palette[index % VintageColors.palette.length], lines 258-259.
BarDatasetColor(index) == ArrayGet(VintagePalette, index % Len(VintagePalette))

\* createBarChart(ctx, labels, datasets), lines 253-317: every dataset is
\* copied and given the colours of its position and the bar styling.
createBarChart(labels, datasets) ==
    [type |-> "bar",
     labels |-> labels,
     datasets |-> [k \in 1..Len(datasets) |->
                     Spread(datasets[k],
                            [backgroundColor |-> BarDatasetColor(k - 1),
                             borderColor |-> BarDatasetColor(k - 1),
                             borderWidth |-> 1,
                             borderRadius |-> 4,
                             borderSkipped |-> FALSE])]]

\* How the chart object reads an array given for an element option such as
\* backgroundColor: the entry at the element's index, the array looped over
\* when it has fewer entries than there are data (the charting library's
\* indexable options; the Chart.defaults.font of line 7 and the cutout of
\* line 222 are those of the library versions that do so).
IndexableOption(option, index) == option[(index % Len(option)) + 1]

\* The colour the doughnut built from config draws slice i (0-based) with.
SliceColor(config, i) == IndexableOption(config.datasets[1].backgroundColor, i)

\* The tooltip label callback of the doughnut chart, lines 231-237.
\* context.label || '' and context.parsed || 0; the total is the sum of the
\* dataset; the percentage is (value / total * 100).toFixed(1), unguarded.
DoughnutTooltipLabel(context) ==
    LET label == context.label
        value == context.parsed
        total == SumOf(context.dataset.data)
        percentage == ToFixed(JsTimes(JsDiv(value, total), 100), 1)
    IN  label \o <<":", " ", "$">> \o ToFixed(Num(value), 0)
              \o <<" ", "(">> \o percentage \o <<"%", ")">>

\* The tooltip label callback of the pie chart, lines 343-349: the same text.
PieTooltipLabel(context) ==
    LET label == context.label
        value == context.parsed
        total == SumOf(context.dataset.data)
        percentage == ToFixed(JsTimes(JsDiv(value, total), 100), 1)
    IN  label \o <<":", " ", "$">> \o ToFixed(Num(value), 0)
              \o <<" ", "(">> \o percentage \o <<"%", ")">>

\* A variant without the total > 0 guard.
calculatePercentageUnguarded(value, total) ==
    JsString(ToFixed(JsTimes(JsDiv(value, total), 100), 1))

\* calculatePercentage(value, total), lines 463-465: a string with one
\* decimal when total > 0, the number 0 otherwise.
calculatePercentage(value, total) ==
    IF total > 0
    THEN JsString(ToFixed(JsTimes(JsDiv(value, total), 100), 1))
    ELSE JsNumber(Num(0))

---------------------------------------------------------------------------
(* Arguments the helpers are called with *)

\* Longest breakdown and longest trend series handed to the constructors.
MaxSlices == 7
MaxPoints == 2

\* Longest list of datasets handed to createBarChart.
MaxDatasets == 11

\* Category labels "C1", "C2", ... and values 10, 20, ...
CategoryLabels(n) == [i \in 1..n |-> <<"C">> \o NatToStr(i)]
CategoryValues(n) == [i \in 1..n |-> 10 * i]

TrendPoints ==
    {[month |-> "Jan", income |-> 3, expense |-> 1, balance |-> 2],
     [month |-> "Feb", income |-> 0, expense |-> 2, balance |-> -2],
     [month |-> "Mar", income |-> 5, expense |-> 4, balance |-> 1]}

SeqsUpTo(S, n) == UNION {[1..m -> S] : m \in 0..n}

\* Datasets for a bar chart: "S1", "S2", ... with the values 10 * k, k.  The
\* datasets at the positions in coloured bring colours of their own.
CallerColor == "#000000"

BarDatasets(n, coloured) ==
    [k \in 1..n |->
        IF k \in coloured
        THEN [label |-> <<"S">> \o NatToStr(k), data |-> <<10 * k, k>>,
              backgroundColor |-> CallerColor, borderColor |-> CallerColor]
        ELSE [label |-> <<"S">> \o NatToStr(k), data |-> <<10 * k, k>>]]

\* Which datasets bring colours: none, the first, the last, all.
ColouredChoices(n) == {{}, {1} \cap (1..n), {n} \cap (1..n), 1..n}

PercentValues == {-5, 0, 1, 2, 25, 33, 50}
PercentTotals == {-4, 0, 1, 3, 7, 100}

\* Datasets a tooltip is asked about; some sum to zero.
TooltipDatasets == {<<0>>, <<0, 0>>, <<0, 0, 0>>, <<1, 3>>, <<25, 75>>, <<2, 0, 1>>}

TooltipContexts ==
    {[label |-> CategoryLabels(i)[i], parsed |-> d[i], dataset |-> [data |-> d]] :
        <<d, i>> \in {<<d, i>> \in TooltipDatasets \X (1..3) : i <= Len(d)}}

CalcCalls ==
    {[fn |-> "calculatePercentage", value |-> v, total |-> t] :
        v \in PercentValues, t \in PercentTotals}
    \cup {[fn |-> "createCategoryDoughnutChart",
           labels |-> CategoryLabels(n), values |-> CategoryValues(n), type |-> k] :
        n \in 0..MaxSlices, k \in {"income", "expense"}}
    \cup {[fn |-> "createMonthlyTrendChart", data |-> pts] :
        pts \in SeqsUpTo(TrendPoints, MaxPoints)}
    \cup {[fn |-> f, context |-> c] :
        f \in {"doughnutTooltipLabel", "pieTooltipLabel"}, c \in TooltipContexts}
    \cup UNION {{[fn |-> "createBarChart",
                  labels |-> <<"Jan", "Feb">>, datasets |-> BarDatasets(n, coloured)] :
                    coloured \in ColouredChoices(n)} : n \in 0..MaxDatasets}

---------------------------------------------------------------------------
(* The helpers applied to their arguments *)

Pending == call.fn # "none" /\ ret = NoValue

CallCalculatePercentage ==
    /\ Pending
    /\ call.fn = "calculatePercentage"
    /\ ret' = calculatePercentage(call.value, call.total)
    /\ UNCHANGED <<call, nonCalcVars>>

CallCreateCategoryDoughnutChart ==
    /\ Pending
    /\ call.fn = "createCategoryDoughnutChart"
    /\ ret' = createCategoryDoughnutChart(call.labels, call.values, call.type)
    /\ UNCHANGED <<call, nonCalcVars>>

CallCreateMonthlyTrendChart ==
    /\ Pending
    /\ call.fn = "createMonthlyTrendChart"
    /\ ret' = createMonthlyTrendChart(call.data)
    /\ UNCHANGED <<call, nonCalcVars>>

CallDoughnutTooltipLabel ==
    /\ Pending
    /\ call.fn = "doughnutTooltipLabel"
    /\ ret' = JsString(DoughnutTooltipLabel(call.context))
    /\ UNCHANGED <<call, nonCalcVars>>

CallPieTooltipLabel ==
    /\ Pending
    /\ call.fn = "pieTooltipLabel"
    /\ ret' = JsString(PieTooltipLabel(call.context))
    /\ UNCHANGED <<call, nonCalcVars>>

CallCreateBarChart ==
    /\ Pending
    /\ call.fn = "createBarChart"
    /\ ret' = createBarChart(call.labels, call.datasets)
    /\ UNCHANGED <<call, nonCalcVars>>

InitCalc ==
    /\ ToastInit
    /\ FormInit
    /\ ChartInit
    /\ AmountInit
    /\ LoadingInit
    /\ ScriptsLoaded
    /\ hasButton = TRUE
    /\ lastCall = Idle
    /\ call \in CalcCalls
    /\ ret = NoValue

NextCalc ==
    \/ CallCalculatePercentage
    \/ CallCreateCategoryDoughnutChart
    \/ CallCreateMonthlyTrendChart
    \/ CallDoughnutTooltipLabel
    \/ CallPieTooltipLabel
    \/ CallCreateBarChart

SpecCalc == InitCalc /\ [][NextCalc]_vars

Returned(fn) == call.fn = fn /\ ret # NoValue

---------------------------------------------------------------------------
(* C5, C6, C7, C10 *)

PaletteOf(type) == IF type = "income" THEN IncomeColors ELSE ExpenseColors

TooltipTextWithPercentage(context, percentage) ==
    context.label \o <<":", " ", "$">> \o ToFixed(Num(context.parsed), 0)
        \o <<" ", "(">> \o percentage \o <<"%", ")">>

\* C6: when the values of the dataset sum to 0, the tooltip label of the
\* doughnut and of the pie chart reports 0%.
C6_ZeroTotalTooltipReportsZeroPercent ==
    (/\ call.fn \in {"doughnutTooltipLabel", "pieTooltipLabel"}
     /\ ret # NoValue
     /\ SumOf(call.context.dataset.data) = 0)
    => \E zero \in {<<"0">>, <<"0", ".", "0">>} :
           ret.s = TooltipTextWithPercentage(call.context, zero)

IsDigit(c) == \E d \in 1..10 : DigitChars[d] = c
DigitValue(c) == CHOOSE d \in 0..9 : DigitChars[d + 1] = c

RECURSIVE DigitsToNat(_)
DigitsToNat(s) ==
    IF s = <<>> THEN 0
    ELSE 10 * DigitsToNat(SubSeq(s, 1, Len(s) - 1)) + DigitValue(s[Len(s)])

Unsigned(s) == IF s # <<>> /\ s[1] = "-" THEN Tail(s) ELSE s

\* s reads as digits, a point and exactly one digit, with an optional sign.
HasOneDecimal(s) ==
    LET body == Unsigned(s)
    IN  /\ Len(body) >= 3
        /\ body[Len(body) - 1] = "."
        /\ \A i \in (1..Len(body)) \ {Len(body) - 1} : IsDigit(body[i])

\* The number such a string denotes, in tenths.
TenthsOf(s) ==
    LET body == Unsigned(s)
        magnitude == 10 * DigitsToNat(SubSeq(body, 1, Len(body) - 2))
                        + DigitValue(body[Len(body)])
    IN  IF s[1] = "-" THEN -magnitude ELSE magnitude

\* C7: calculatePercentage(v, 0) is the number 0 for every v; for a positive
\* total the result is a string with exactly one decimal, the decimal
\* nearest to v / total * 100; calculatePercentage(25, 100) is "25.0".
C7_PercentageGuardedAndOneDecimal ==
    Returned("calculatePercentage") =>
        /\ call.total = 0 => ret = JsNumber(Num(0))
        /\ call.total > 0 =>
              /\ ret.t = "string"
              /\ HasOneDecimal(ret.s)
              /\ 2 * Abs(TenthsOf(ret.s) * call.total - 1000 * call.value) <= call.total
        /\ (call.value = 25 /\ call.total = 100) => ret = JsString(<<"2", "5", ".", "0">>)

\* calculatePercentage(25, 100) has returned.
C7_Witness_TwentyFiveOfHundred ==
    /\ Returned("calculatePercentage")
    /\ call.value = 25
    /\ call.total = 100
    /\ ret.t = "string"

\* C10: createMonthlyTrendChart builds exactly three series (income,
\* expense, net balance, in that order) and one label list, each as long as
\* points, entry k taken from points[k]; empty points give an empty chart.
C10_TrendChartThreeSeriesInOrder ==
    Returned("createMonthlyTrendChart") =>
        LET points == call.data
        IN  /\ Len(ret.datasets) = 3
            /\ [j \in 1..3 |-> ret.datasets[j].label] = <<"Income", "Expenses", "Net Balance">>
            /\ Len(ret.labels) = Len(points)
            /\ \A j \in 1..3 : Len(ret.datasets[j].data) = Len(points)
            /\ \A k \in 1..Len(points) :
                  /\ ret.labels[k] = points[k].month
                  /\ ret.datasets[1].data[k] = points[k].income
                  /\ ret.datasets[2].data[k] = points[k].expense
                  /\ ret.datasets[3].data[k] = points[k].balance

\* A trend chart was built from two different points.
C10_Witness_TwoDistinctPoints ==
    /\ Returned("createMonthlyTrendChart")
    /\ Len(call.data) = 2
    /\ call.data[1] # call.data[2]
    /\ Len(ret.datasets) = 3

---------------------------------------------------------------------------
(* charts.js: chart handles -- construction, updateChartData, destroyChart,
   resizeChart *)

\* Charts a page script holds at most (handle life cycle), charts on a page
\* (resize), and redraws asked of one chart.
MaxHandles == 1
MaxCharts == 2
MaxUpdates == 1

\* What a caller may pass where a chart is expected.
NullHandle == [kind |-> "null", id |-> 0]
UndefinedHandle == [kind |-> "undefined", id |-> 0]
PlainObject == [kind |-> "object", id |-> 0]
ChartHandle(h) == [kind |-> "chart", id |-> h]

Handles == {NullHandle, UndefinedHandle, PlainObject} \cup {ChartHandle(h) : h \in DOMAIN charts}

\* chart && typeof chart.method === 'function': only a Chart object passes.
Truthy(chart) == chart.kind \notin {"null", "undefined"}
HasFunction(chart) == chart.kind = "chart"

\* return new Chart(ctx, {...}): the object gets the next id and is entered
\* in Chart.instances.
NewChart(config) ==
    /\ charts' = Append(charts, [type |-> config.type,
                                 labels |-> config.labels,
                                 datasets |-> config.datasets,
                                 destroyed |-> FALSE,
                                 redraws |-> 0])
    /\ instances' = instances \cup {Len(charts) + 1}

\* Configurations page scripts build their charts from.
ChartMenu ==
    {createMonthlyTrendChart(pts) : pts \in SeqsUpTo(TrendPoints, 1)}
    \cup {createCategoryDoughnutChart(CategoryLabels(2), CategoryValues(2), "expense")}

\* A page script builds a chart through window.VintageCharts.
CreateChart(config) ==
    /\ Len(charts) < MaxHandles
    /\ NewChart(config)
    /\ lastCall' = [fn |-> "createChart", handle |-> ChartHandle(Len(charts) + 1)]
    /\ UNCHANGED <<resizeVars, nonChartVars>>

\* chart.destroy() of the charting library: releases the canvas and leaves
\* Chart.instances; on a chart already destroyed there is nothing left to
\* release and nothing to leave.
ChartDestroy(h) ==
    /\ charts' = [charts EXCEPT ![h].destroyed = TRUE]
    /\ instances' = instances \ {h}

\* A variant of destroyChart without the existence check: chart.destroy()
\* on null or undefined raises TypeError.
DestroyChartUnguarded(chart) ==
    /\ IF chart.kind = "chart"
       THEN ChartDestroy(chart.id)
       ELSE UNCHANGED chartVars
    /\ lastCall' = [fn |-> "destroyChart", handle |-> chart,
                    called |-> chart.kind = "chart",
                    again |-> chart.kind = "chart" /\ charts[chart.id].destroyed,
                    raised |-> IF chart.kind = "chart" THEN "none" ELSE "TypeError"]
    /\ UNCHANGED <<resizeVars, nonChartVars>>

\* destroyChart(chart), lines 393-397.
DestroyChart(chart) ==
    /\ IF Truthy(chart) /\ HasFunction(chart)
       THEN ChartDestroy(chart.id)
       ELSE UNCHANGED chartVars
    /\ lastCall' = [fn |-> "destroyChart", handle |-> chart,
                    called |-> Truthy(chart) /\ HasFunction(chart),
                    again |-> chart.kind = "chart" /\ charts[chart.id].destroyed,
                    raised |-> "none"]
    /\ UNCHANGED <<resizeVars, nonChartVars>>

\* resizeChart(chart), lines 402-406.  chart.resize() re-measures the chart;
\* a destroyed handle is not handed in again (a handle, once destroyed, is
\* only ever destroyed again).
ResizeChart(chart) ==
    /\ chart.kind = "chart" => ~charts[chart.id].destroyed
    /\ lastCall' = [fn |-> "resizeChart", handle |-> chart,
                    called |-> Truthy(chart) /\ HasFunction(chart),
                    again |-> FALSE,
                    raised |-> "none"]
    /\ UNCHANGED <<chartVars, resizeVars, nonChartVars>>

\* newData as a caller passes it: an array whose entries are arrays or null.
JsArray(items) == [t |-> "array", items |-> items]
JsNull == [t |-> "null", items |-> <<>>]
JsUndefined == [t |-> "undefined", items |-> <<>>]

\* newData[index] || []
EntryOrEmpty(newData, index) ==
    LET entry == IF (index + 1) \in DOMAIN newData THEN newData[index + 1] ELSE JsUndefined
    IN  IF entry.t = "array" THEN entry.items ELSE <<>>

NewLabelChoices == {<<"Q1">>, <<"Q1", "Q2">>}
NewDataChoices ==
    {<<>>,
     <<JsArray(<<7>>)>>,
     <<JsArray(<<7, 8>>), JsArray(<<9, 6>>), JsArray(<<>>)>>,
     <<JsNull, JsArray(<<4>>), JsArray(<<5>>), JsArray(<<6>>)>>}

\* A variant of updateChartData that leaves the labels as they were.
UpdateChartDataKeepLabels(h, newLabels, newData) ==
    /\ charts' = [charts EXCEPT
           ![h].datasets = [i \in DOMAIN @ |->
                               [@[i] EXCEPT !.data = EntryOrEmpty(newData, i - 1)]],
           ![h].redraws = @ + 1]
    /\ UNCHANGED instances

\* updateChartData(chart, newLabels, newData), lines 382-388, on the chart
\* with handle h: labels replaced, every dataset's data replaced by
\* newData[index] || [], then chart.update().
UpdateChartData(h, newLabels, newData) ==
    /\ charts' = [charts EXCEPT
           ![h].labels = newLabels,
           ![h].datasets = [i \in DOMAIN @ |->
                               [@[i] EXCEPT !.data = EntryOrEmpty(newData, i - 1)]],
           ![h].redraws = @ + 1]
    /\ UNCHANGED instances

\* A page script updates a live chart it holds.
Update(h, newLabels, newData) ==
    /\ h \in DOMAIN charts
    /\ ~charts[h].destroyed
    /\ charts[h].redraws < MaxUpdates
    /\ UpdateChartData(h, newLabels, newData)
    /\ lastCall' = [fn |-> "updateChartData", handle |-> ChartHandle(h),
                    newLabels |-> newLabels, newData |-> newData,
                    handlesBefore |-> Len(charts),
                    seriesBefore |-> Len(charts[h].datasets),
                    redrawsBefore |-> charts[h].redraws]
    /\ UNCHANGED <<resizeVars, nonChartVars>>

InitChart ==
    /\ ToastInit
    /\ FormInit
    /\ ChartInit
    /\ AmountInit
    /\ LoadingInit
    /\ ScriptsLoaded
    /\ CalcIdle
    /\ hasButton = TRUE
    /\ lastCall = Idle

NextChart ==
    \/ \E config \in ChartMenu : CreateChart(config)
    \/ \E chart \in Handles : DestroyChart(chart)
    \/ \E chart \in Handles : ResizeChart(chart)
    \/ \E h \in DOMAIN charts, l \in NewLabelChoices, d \in NewDataChoices : Update(h, l, d)

SpecChart == InitChart /\ [][NextChart]_vars

---------------------------------------------------------------------------
(* C8, C9 *)

\* C8: destroyChart and resizeChart never raise; with an absent handle
\* (null, undefined) they call nothing; a second destroyChart on a handle
\* already destroyed does not raise either.
C8_DestroyAndResizeNeverRaise ==
    lastCall.fn \in {"destroyChart", "resizeChart"} =>
        /\ lastCall.raised = "none"
        /\ lastCall.handle.kind \in {"null", "undefined"} => ~lastCall.called
        /\ lastCall.handle.kind = "chart" => lastCall.called

\* destroyChart has just run a second time on the same, destroyed handle.
C8_Witness_DestroyedTwice ==
    /\ lastCall.fn = "destroyChart"
    /\ lastCall.again
    /\ charts[lastCall.handle.id].destroyed

\* C9 as stated: updateChartData keeps the chart object and the number of
\* series, sets the labels to newLabels, replaces the values of every series
\* i by newSeries[i], and redraws exactly once.
C9_EverySeriesTakesItsNewSeries ==
    lastCall.fn = "updateChartData" =>
        LET chart == charts[lastCall.handle.id]
            newData == lastCall.newData
        IN  /\ Len(charts) = lastCall.handlesBefore
            /\ Len(chart.datasets) = lastCall.seriesBefore
            /\ chart.labels = lastCall.newLabels
            /\ \A i \in 1..Len(chart.datasets) :
                  /\ i \in DOMAIN newData
                  /\ newData[i].t = "array"
                  /\ chart.datasets[i].data = newData[i].items
            /\ chart.redraws = lastCall.redrawsBefore + 1

\* C9 (amended): as above, except that a series i for which newSeries holds
\* no array (newSeries is shorter, or its entry i is null) is emptied.
C9_SeriesTakeNewSeriesOrEmpty ==
    lastCall.fn = "updateChartData" =>
        LET chart == charts[lastCall.handle.id]
            newData == lastCall.newData
        IN  /\ Len(charts) = lastCall.handlesBefore
            /\ Len(chart.datasets) = lastCall.seriesBefore
            /\ chart.labels = lastCall.newLabels
            /\ \A i \in 1..Len(chart.datasets) :
                  IF i \in DOMAIN newData /\ newData[i].t = "array"
                  THEN chart.datasets[i].data = newData[i].items
                  ELSE chart.datasets[i].data = <<>>
            /\ chart.redraws = lastCall.redrawsBefore + 1

\* A three-series chart was updated with one new series: the first series
\* took it, the other two were emptied.
C9_Witness_ShortNewSeries ==
    /\ lastCall.fn = "updateChartData"
    /\ lastCall.seriesBefore = 3
    /\ Len(lastCall.newData) = 1
    /\ charts[lastCall.handle.id].datasets[1].data = <<7>>
    /\ charts[lastCall.handle.id].datasets[3].data = <<>>

---------------------------------------------------------------------------
(* charts.js: the debounced window resize *)

\* The DOMContentLoaded handler, lines 468-470: initializeResponsiveCharts
\* adds one resize listener whose closure starts with resizeTimeout
\* undefined.  The browser fires DOMContentLoaded once.
DOMContentLoaded ==
    /\ ~domLoaded
    /\ domLoaded' = TRUE
    /\ resizeListeners' = resizeListeners + 1
    /\ lastCall' = [fn |-> "DOMContentLoaded"]
    /\ UNCHANGED <<resizeTimers, resizeTimeout, sinceResize, burstPasses>>
    /\ UNCHANGED <<chartVars, nonChartVars>>

\* setTimeout returns an id no pending timer has.
FreshTimerId(pending) == CHOOSE id \in 1..(Cardinality(pending) + 1) :
                            \A tm \in pending : tm.id # id

\* clearTimeout(id): the timer with that id, if still pending, is dropped.
ClearTimeout(pending, id) == {tm \in pending : tm.id # id}

\* A variant of the listener's first step that clears nothing.
PendingWithoutClear == resizeTimers

\* clearTimeout(resizeTimeout), line 426: the timers still pending after it.
PendingAfterClear == ClearTimeout(resizeTimers, resizeTimeout)

\* setTimeout(..., 300), lines 427-431.
NewResizeTimer(pending) == [id |-> FreshTimerId(pending), left |-> Ticks(ResizeDebounceMs)]

\* A resize event on window; the listener, if installed, runs (lines
\* 425-432).  A burst is a run of events each less than the debounce delay
\* after the one before.
WindowResize ==
    /\ IF resizeListeners > 0
       THEN LET kept == PendingAfterClear
                tm == NewResizeTimer(kept)
            IN  /\ resizeTimers' = kept \cup {tm}
                /\ resizeTimeout' = tm.id
       ELSE UNCHANGED <<resizeTimers, resizeTimeout>>
    /\ sinceResize' = 0
    /\ burstPasses' = IF sinceResize >= Ticks(ResizeDebounceMs) THEN 0 ELSE burstPasses
    /\ lastCall' = [fn |-> "resize"]
    /\ UNCHANGED <<domLoaded, resizeListeners>>
    /\ UNCHANGED <<chartVars, nonChartVars>>

\* Chart.helpers.each(Chart.instances, instance => instance.resize()): the
\* charts the pass resizes.
ResizePassTargets == instances

\* The debounce callback, lines 427-431.
ResizeTimerFire(tm) ==
    /\ tm \in resizeTimers
    /\ tm.left = 0
    /\ resizeTimers' = resizeTimers \ {tm}
    /\ burstPasses' = burstPasses + 1
    /\ lastCall' = [fn |-> "resizePass", resized |-> ResizePassTargets, gap |-> sinceResize]
    /\ UNCHANGED <<domLoaded, resizeListeners, resizeTimeout, sinceResize>>
    /\ UNCHANGED <<chartVars, nonChartVars>>

\* TickMs of time pass for the debounce timers.
ResizeTick ==
    /\ \A tm \in resizeTimers : tm.left > 0
    /\ resizeTimers # {} \/ sinceResize < Ticks(ResizeDebounceMs)
    /\ resizeTimers' = {[tm EXCEPT !.left = @ - 1] : tm \in resizeTimers}
    /\ sinceResize' = Min(sinceResize + 1, Ticks(ResizeDebounceMs))
    /\ UNCHANGED <<domLoaded, resizeListeners, resizeTimeout, burstPasses, lastCall>>
    /\ UNCHANGED <<chartVars, nonChartVars>>

\* Charts of a page: built and destroyed while resize events come in.
PageCharts ==
    {createCategoryDoughnutChart(CategoryLabels(1), CategoryValues(1), "income")}

CreatePageChart(config) ==
    /\ Len(charts) < MaxCharts
    /\ NewChart(config)
    /\ lastCall' = [fn |-> "createChart", handle |-> ChartHandle(Len(charts) + 1)]
    /\ UNCHANGED <<resizeVars, nonChartVars>>

DestroyPageChart(h) ==
    /\ h \in instances
    /\ DestroyChart(ChartHandle(h))

InitResize ==
    /\ ToastInit
    /\ FormInit
    /\ ChartInit
    /\ AmountInit
    /\ LoadingInit
    /\ ScriptsLoaded
    /\ CalcIdle
    /\ hasButton = TRUE
    /\ lastCall = Idle

NextResize ==
    \/ DOMContentLoaded
    \/ WindowResize
    \/ \E tm \in resizeTimers : ResizeTimerFire(tm)
    \/ ResizeTick
    \/ \E config \in PageCharts : CreatePageChart(config)
    \/ \E h \in instances : DestroyPageChart(h)

SpecResize == InitResize /\ [][NextResize]_vars

---------------------------------------------------------------------------
(* C2 *)

\* C2: within a burst of resize events (each less than 300 ms after the one
\* before) at most one resize pass runs; a pass runs only once 300 ms have
\* passed since the last event and resizes every chart instance live at that
\* moment; the page has exactly one resize listener once it has loaded, and
\* none before.
C2_OnePassPerBurstAfterDelay ==
    /\ burstPasses <= 1
    /\ lastCall.fn = "resizePass" =>
          /\ lastCall.gap >= Ticks(ResizeDebounceMs)
          /\ lastCall.resized = instances
    /\ resizeListeners = IF domLoaded THEN 1 ELSE 0

\* A pass has just resized two live charts.
C2_Witness_PassOverTwoCharts ==
    /\ lastCall.fn = "resizePass"
    /\ Cardinality(lastCall.resized) = 2
    /\ burstPasses = 1

---------------------------------------------------------------------------
(* main.js: the amount field -- formatAmountInput, validateAmountInput *)

\* Longest text typed key by key into the amount field.
MaxAmountLen == 3

\* Keys the user types into the field, and texts put in at once (pasted).
AmountKeys == {"0", "1", "2", "-", ".", "a", " "}

AmountPastes ==
    {<<"1", "2">>,
     <<"-", "5">>,
     <<"a", "b", "c">>,
     <<"1", "2", "a", "b", "c">>,
     <<"1", "2", ".", "5">>,
     <<"3", ".", "1", "4", "1", "5", "9">>,
     <<"0", ".", "0", "0", "1">>,
     <<"1", "e", "2">>,
     <<"5", "E", "-", "1">>,
     <<"+", "4">>,
     <<"I", "n", "f", "i", "n", "i", "t", "y">>,
     <<"-", "I", "n", "f", "i", "n", "i", "t", "y">>}

\* The longest run of decimal digits s begins with.
RECURSIVE LeadingDigits(_)
LeadingDigits(s) ==
    IF s # <<>> /\ IsDigit(Head(s)) THEN <<Head(s)>> \o LeadingDigits(Tail(s)) ELSE <<>>

StartsWith(s, prefix) == Len(s) >= Len(prefix) /\ SubSeq(s, 1, Len(prefix)) = prefix

Drop(s, n) == SubSeq(s, n + 1, Len(s))

\* The exponent part s begins with: "e" or "E", an optional sign and at
\* least one digit; 0 when s begins with no such part.
ExponentOf(s) ==
    IF s = <<>> \/ Head(s) \notin {"e", "E"} THEN 0
    ELSE LET afterE == Tail(s)
             signed == afterE # <<>> /\ Head(afterE) \in {"+", "-"}
             digits == LeadingDigits(IF signed THEN Tail(afterE) ELSE afterE)
         IN  IF digits = <<>> THEN 0
             ELSE IF signed /\ Head(afterE) = "-" THEN -DigitsToNat(digits)
             ELSE DigitsToNat(digits)

\* parseFloat(text): leading white space is skipped, then the longest prefix
\* that reads as a decimal literal is taken (a sign, then "Infinity" or
\* digits with an optional point, fraction and exponent) and whatever
\* follows is ignored; NaN when no prefix reads as one.
ParseFloat(text) ==
    LET t == TrimLeft(text)
        signed == t # <<>> /\ Head(t) \in {"+", "-"}
        sign == IF signed /\ Head(t) = "-" THEN -1 ELSE 1
        u == IF signed THEN Tail(t) ELSE t
        int == LeadingDigits(u)
        afterInt == Drop(u, Len(int))
        hasPoint == afterInt # <<>> /\ Head(afterInt) = "."
        frac == IF hasPoint THEN LeadingDigits(Tail(afterInt)) ELSE <<>>
        afterFrac == IF hasPoint THEN Drop(afterInt, 1 + Len(frac)) ELSE afterInt
        e == ExponentOf(afterFrac)
        mantissa == DigitsToNat(int) * Pow10(Len(frac)) + DigitsToNat(frac)
    IN  IF StartsWith(u, <<"I", "n", "f", "i", "n", "i", "t", "y">>) THEN Infinity(sign)
        ELSE IF int = <<>> /\ frac = <<>> THEN NaN
        ELSE [k |-> "finite",
              n |-> sign * mantissa * (IF e > 0 THEN Pow10(e) ELSE 1),
              d |-> Pow10(Len(frac)) * (IF e < 0 THEN Pow10(-e) ELSE 1)]

IsNaN(x) == x.k = "NaN"

\* x > 0 on Numbers: false for NaN.
GreaterThanZero(x) == x.k # "NaN" /\ x.n > 0

\* formatAmountInput(event), lines 159-166: the value the field holds after it.
FormatAmountInput(value) ==
    LET x == ParseFloat(value)
    IN  IF ~IsNaN(x) /\ GreaterThanZero(x) THEN ToFixed(x, 2) ELSE value

\* validateAmountInput(event), lines 171-180: whether the field carries
\* is-invalid after it.
ValidateAmountInput(value) ==
    LET x == ParseFloat(value)
    IN  IsNaN(x) \/ ~GreaterThanZero(x)

\* The field's value becomes text by a user edit; the browser fires input,
\* whose listener is validateAmountInput (line 71).
AmountInput(text) ==
    /\ amount' = [value |-> text, invalid |-> ValidateAmountInput(text)]
    /\ lastCall' = [fn |-> "amountInput", text |-> text]
    /\ UNCHANGED <<toastVars, formVars, calcVars, chartVars, resizeVars, loadingVars, loadVars>>

\* The user types one more key at the end of the field.
TypeKey(c) ==
    /\ Len(amount.value) < MaxAmountLen
    /\ AmountInput(Append(amount.value, c))

\* The user deletes the last character.
Backspace ==
    /\ amount.value # <<>>
    /\ AmountInput(SubSeq(amount.value, 1, Len(amount.value) - 1))

\* The user replaces the field's content by a pasted text.
Paste(text) ==
    /\ amount.value # text
    /\ AmountInput(text)

\* The field loses focus; the browser fires blur, whose listener is
\* formatAmountInput (line 70).  Setting input.value from script fires no
\* input event, so the mark stays as it was.
AmountBlur ==
    /\ amount' = [amount EXCEPT !.value = FormatAmountInput(amount.value)]
    /\ lastCall' = [fn |-> "amountBlur", text |-> amount.value]
    /\ UNCHANGED <<toastVars, formVars, calcVars, chartVars, resizeVars, loadingVars, loadVars>>

InitAmount ==
    /\ ToastInit
    /\ FormInit
    /\ ChartInit
    /\ AmountInit
    /\ LoadingInit
    /\ ScriptsLoaded
    /\ CalcIdle
    /\ hasButton = TRUE
    /\ lastCall = Idle

NextAmount ==
    \/ \E c \in AmountKeys : TypeKey(c)
    \/ Backspace
    \/ \E text \in AmountPastes : Paste(text)
    \/ AmountBlur

SpecAmount == InitAmount /\ [][NextAmount]_vars

---------------------------------------------------------------------------
(* C11 *)

\* s reads as digits, a point and exactly two digits.
HasTwoDecimals(s) ==
    /\ Len(s) >= 4
    /\ s[Len(s) - 2] = "."
    /\ \A i \in (1..Len(s)) \ {Len(s) - 2} : IsDigit(s[i])

\* The number such a string denotes, in hundredths.
HundredthsOf(s) == DigitsToNat(SubSeq(s, 1, Len(s) - 3) \o SubSeq(s, Len(s) - 1, Len(s)))

\* The text parses as a positive number: not NaN and not <= 0.
ParsesAsPositive(text) == ~IsNaN(ParseFloat(text)) /\ GreaterThanZero(ParseFloat(text))

\* C11: a blur rewrites the field's value to the two-decimal form of the
\* number it parses as exactly when the text parses as a positive number
\* ("12" becomes "12.00") and otherwise leaves it unchanged; after every
\* input event the field is marked invalid exactly when the text does not
\* parse as a positive number.
C11_BlurFormatsAndInputMarksPositiveAmounts ==
    /\ lastCall.fn = "amountBlur" =>
          LET x == ParseFloat(lastCall.text)
          IN  IF ParsesAsPositive(lastCall.text)
              THEN /\ HasTwoDecimals(amount.value)
                   /\ 2 * Abs(HundredthsOf(amount.value) * x.d - 100 * x.n) <= x.d
              ELSE amount.value = lastCall.text
    /\ (lastCall.fn = "amountBlur" /\ lastCall.text = <<"1", "2">>) =>
          amount.value = <<"1", "2", ".", "0", "0">>
    /\ lastCall.fn = "amountInput" =>
          (amount.invalid <=> ~ParsesAsPositive(amount.value))

---------------------------------------------------------------------------
(* C14 *)

\* C14: createBarChart gives the dataset at index n the fill colour and the
\* border colour palette[n mod 10], whatever colour the caller's dataset
\* carried, and keeps the datasets' order and count (each result dataset
\* has the label and values of the caller's dataset at the same index).
C14_BarDatasetColorByPositionModTen ==
    Returned("createBarChart") =>
        /\ Len(VintagePalette) = 10
        /\ Len(ret.datasets) = Len(call.datasets)
        /\ \A n \in 0..(Len(call.datasets) - 1) :
              /\ ret.datasets[n + 1].backgroundColor = VintagePalette[(n % 10) + 1]
              /\ ret.datasets[n + 1].borderColor = VintagePalette[(n % 10) + 1]
              /\ ret.datasets[n + 1].label = call.datasets[n + 1].label
              /\ ret.datasets[n + 1].data = call.datasets[n + 1].data

\* A bar chart was built from more datasets than the palette has colours,
\* the last of them (index 10) bringing a colour of its own.
C14_Witness_EleventhDatasetWrapsAround ==
    /\ Returned("createBarChart")
    /\ Len(call.datasets) > Len(VintagePalette)
    /\ "backgroundColor" \in DOMAIN call.datasets[11]
    /\ call.datasets[11].backgroundColor = CallerColor
    /\ ret.datasets[11].backgroundColor = VintagePalette[1]

---------------------------------------------------------------------------
(* C15, C16 *)

ExitStartsAt == Ticks(AutoDismissMs)
RemovedAt == Ticks(AutoDismissMs) + Ticks(ExitAnimationMs)

IdsIn(toasts) == {t.id : t \in toasts}

\* C15: a toast in the document is in its exit transition exactly from 5
\* seconds after it was shown and never stays beyond 5.3 seconds; a toast
\* leaves the document only by a later showNotification, by its close
\* button (at once) or by its own removal 5.3 seconds after it was shown;
\* and every toast shown eventually leaves the document.
C15_ToastLeavesAfterFiveSecondsPlusExit ==
    /\ [](\A t \in doc :
             /\ toastAge[t.id] <= RemovedAt
             /\ t.animation = "slideOutRight" => toastAge[t.id] >= ExitStartsAt
             /\ toastAge[t.id] > ExitStartsAt => t.animation = "slideOutRight")
    /\ [](lastCall.fn = "closeClick" => ~Attached(lastCall.toast))
    /\ [][\A t \in doc :
             t.id \notin IdsIn(doc') =>
                \/ lastCall'.fn = "showNotification"
                \/ lastCall'.fn = "closeClick" /\ lastCall'.toast = t.id
                \/ /\ lastCall'.fn = "removeToast"
                   /\ lastCall'.toast = t.id
                   /\ t.animation = "slideOutRight"
                   /\ toastAge[t.id] = RemovedAt]_vars
    /\ \A id \in 1..MaxToasts : Attached(id) ~> ~Attached(id)

\* A toast, neither replaced nor closed, has just been removed by its own
\* removal timer.
C15_Witness_RemovedByOwnTimer ==
    /\ lastCall.fn = "removeToast"
    /\ lastCall.attached
    /\ ~Attached(lastCall.toast)

\* C16: a timer that fires for a toast no longer in the document changes
\* nothing in the document; and a toast less than 5 seconds old is removed
\* or put into its exit transition by nothing but a later showNotification
\* or its own close button.
C16_StaleTimersLeaveLaterToastsAlone ==
    /\ [][\A tm \in toastTimers :
             (tm.left = 0 /\ toastTimers' = toastTimers \ {tm} /\ ~Attached(tm.toast))
                => doc' = doc]_vars
    /\ [][\A t \in doc :
             (toastAge[t.id] < ExitStartsAt /\ t \notin doc') =>
                \/ lastCall'.fn = "showNotification"
                \/ lastCall'.fn = "closeClick" /\ lastCall'.toast = t.id]_vars

\* A timer of an earlier toast has just fired while a later toast, less than
\* 5 seconds old, is in the document.
C16_Witness_StaleTimerFiredUnderLaterToast ==
    /\ lastCall.fn \in {"autoDismiss", "removeToast"}
    /\ ~lastCall.attached
    /\ \E t \in doc :
          /\ t.id > lastCall.toast
          /\ toastAge[t.id] < ExitStartsAt
          /\ t.animation = "slideInRight"

---------------------------------------------------------------------------
(* main.js: withLoading *)

\* withLoading is called at most MaxLoadingCalls times in a behaviour.
MaxLoadingCalls == 3

\* What the caller's operation does: it returns a promise that settles
\* later, or it throws before returning one.  What it settles or throws with.
OpKinds == {"settlesLater", "throwsAtOnce"}
OpValues == {"rows"}
OpErrors == {"NetworkError"}

Fulfils(value) == [ok |-> TRUE, value |-> value]
Fails(error) == [ok |-> FALSE, value |-> error]
OpOutcomes == {Fulfils(v) : v \in OpValues} \cup {Fails(err) : err \in OpErrors}

LoadingErrorMessage == "An error occurred. Please try again."

\* loadingElement.classList.add('loading') and .remove('loading') under
\* if (loadingElement), lines 363-365 and 375-377.
AddLoading(flags, element) ==
    IF element # NoElement THEN [flags EXCEPT ![element] = TRUE] ELSE flags
RemoveLoading(flags, element) ==
    IF element # NoElement THEN [flags EXCEPT ![element] = FALSE] ELSE flags

\* A variant that swallows the failure: the promise is fulfilled with
\* undefined.
WithLoadingPromiseSwallows(outcome) ==
    IF outcome.ok
    THEN [state |-> "fulfilled", value |-> outcome.value]
    ELSE [state |-> "fulfilled", value |-> Undefined]

\* The promise withLoading returned, once the operation has settled:
\* return result (line 369) or throw error (line 373).
WithLoadingPromise(outcome) ==
    IF outcome.ok
    THEN [state |-> "fulfilled", value |-> outcome.value]
    ELSE [state |-> "rejected", value |-> outcome.value]

\* The catch block, lines 370-373, as far as the page shows it.
WithLoadingCatch(outcome) ==
    IF outcome.ok
    THEN UNCHANGED toastVars
    ELSE ShowNotification(LoadingErrorMessage, "error")

\* A page script calls withLoading(asyncFunction, element).  The body runs
\* up to the await: the class is added and asyncFunction is called.  If that
\* call throws, catch and finally run at once; otherwise the body is
\* suspended with the promise pending.  An element is handed to one call at
\* a time.
CallWithLoading(element, kind, error) ==
    /\ Len(pendingCalls) < MaxLoadingCalls
    /\ element # NoElement =>
          \A i \in DOMAIN pendingCalls :
              pendingCalls[i].state = "pending" => pendingCalls[i].element # element
    /\ IF kind = "throwsAtOnce"
       THEN /\ WithLoadingCatch(Fails(error))
            /\ loading' = RemoveLoading(AddLoading(loading, element), element)
            /\ pendingCalls' = Append(pendingCalls,
                   [element |-> element] @@ WithLoadingPromise(Fails(error)))
       ELSE /\ UNCHANGED toastVars
            /\ loading' = AddLoading(loading, element)
            /\ pendingCalls' = Append(pendingCalls,
                   [element |-> element, state |-> "pending", value |-> Undefined])
    /\ lastCall' = [fn |-> "withLoading", call |-> Len(pendingCalls) + 1,
                    settled |-> kind = "throwsAtOnce", outcome |-> Fails(error),
                    toastsBefore |-> nextToast]
    /\ UNCHANGED <<formVars, calcVars, chartVars, resizeVars, amountVars, loadVars>>

\* The awaited operation of call i settles and the body resumes (lines
\* 368-378): return or catch, then finally.
OperationSettles(i, outcome) ==
    /\ i \in DOMAIN pendingCalls
    /\ pendingCalls[i].state = "pending"
    /\ WithLoadingCatch(outcome)
    /\ loading' = RemoveLoading(loading, pendingCalls[i].element)
    /\ pendingCalls' = [pendingCalls EXCEPT
           ![i] = [element |-> @.element] @@ WithLoadingPromise(outcome)]
    /\ lastCall' = [fn |-> "withLoadingResumed", call |-> i,
                    settled |-> TRUE, outcome |-> outcome,
                    toastsBefore |-> nextToast]
    /\ UNCHANGED <<formVars, calcVars, chartVars, resizeVars, amountVars, loadVars>>

InitLoading ==
    /\ ToastInit
    /\ FormInit
    /\ ChartInit
    /\ AmountInit
    /\ LoadingInit
    /\ ScriptsLoaded
    /\ CalcIdle
    /\ hasButton = TRUE
    /\ lastCall = Idle

NextLoading ==
    \/ \E element \in LoadingElements \cup {NoElement}, kind \in OpKinds, error \in OpErrors :
          CallWithLoading(element, kind, error)
    \/ \E i \in DOMAIN pendingCalls, outcome \in OpOutcomes : OperationSettles(i, outcome)

SpecLoading == InitLoading /\ [][NextLoading]_vars

---------------------------------------------------------------------------
(* C12 *)

PendingOn(element) ==
    \E i \in DOMAIN pendingCalls :
        pendingCalls[i].element = element /\ pendingCalls[i].state = "pending"

\* C12: an element carries the loading indicator exactly while the
\* operation of the withLoading call it was handed to is pending; when the
\* operation has failed, an error toast is in the document and the call's
\* promise is rejected with that same failure; when it has succeeded, the
\* promise is fulfilled with its result and no toast was shown.
C12_LoadingWhilePendingToastAndRethrowOnFailure ==
    /\ \A element \in LoadingElements : loading[element] <=> PendingOn(element)
    /\ (lastCall.fn \in {"withLoading", "withLoadingResumed"} /\ lastCall.settled) =>
          LET promise == pendingCalls[lastCall.call]
          IN  IF lastCall.outcome.ok
              THEN /\ promise.state = "fulfilled"
                   /\ promise.value = lastCall.outcome.value
                   /\ nextToast = lastCall.toastsBefore
              ELSE /\ promise.state = "rejected"
                   /\ promise.value = lastCall.outcome.value
                   /\ nextToast = lastCall.toastsBefore + 1
                   /\ \E t \in doc :
                         /\ t.id = lastCall.toastsBefore
                         /\ t.className = "vintage-alert-error"
                         /\ t.message = LoadingErrorMessage

\* The operation of a call with an element has just failed while the
\* operation of another call, on another element, is still pending.
C12_Witness_FailureWhileAnotherCallPending ==
    /\ lastCall.fn = "withLoadingResumed"
    /\ ~lastCall.outcome.ok
    /\ pendingCalls[lastCall.call].element # NoElement
    /\ ~loading[pendingCalls[lastCall.call].element]
    /\ \E element \in LoadingElements : loading[element] /\ PendingOn(element)

---------------------------------------------------------------------------
(* main.js and charts.js: running the scripts and the page-load handlers *)

\* Most forms and most tooltip triggers on a page.
MaxPageForms == 2
MaxPageTooltips == 2

\* typeof name !== 'undefined', and a bare use of the name.
Defined(name) == name \in libraries

Step(name, count) == [step |-> name, count |-> count]

\* initializeApp(), lines 14-36: the steps it runs, in order.  feather and
\* bootstrap are used only under their typeof checks; initializeTooltips
\* builds one Tooltip per trigger, initializeForms adds handleFormSubmit to
\* every .vintage-form.
InitializeApp ==
    (IF Defined("feather") THEN <<Step("feather.replace", 1)>> ELSE <<>>)
    \o (IF Defined("bootstrap")
        THEN <<Step("initializeTooltips", pageElements.tooltips)>> ELSE <<>>)
    \o <<Step("initializeForms", pageElements.forms),
         Step("initializeNumberFormatting", 1),
         Step("initializeDateInputs", 1),
         Step("initializeResponsiveTables", 1)>>

\* The steps a DOMContentLoaded listener runs: main.js line 6-9 or charts.js
\* lines 468-470.
ListenerSteps(listener) ==
    IF listener = "initializeApp"
    THEN InitializeApp
    ELSE <<Step("initializeResponsiveCharts", 1)>>

RECURSIVE StepsOf(_)
StepsOf(listeners) ==
    IF listeners = <<>> THEN <<>>
    ELSE ListenerSteps(Head(listeners)) \o StepsOf(Tail(listeners))

\* The top level of main.js: the DOMContentLoaded listener (line 6), the
\* style element (lines 382-451), window.VintageFinance (lines 452-459).
\* Nothing there names a third-party library.
RunMainJs ==
    /\ scriptState["main.js"] = "waiting"
    /\ ~domLoaded
    /\ scriptState' = [scriptState EXCEPT !["main.js"] = "done"]
    /\ loadListeners' = Append(loadListeners, "initializeApp")
    /\ globals' = globals \cup {"VintageFinance"}
    /\ lastCall' = [fn |-> "main.js"]
    /\ UNCHANGED <<libraries, pageElements, initRan, uncaught>>
    /\ UNCHANGED <<toastVars, formVars, calcVars, chartVars, resizeVars, amountVars, loadingVars>>

\* The top level of charts.js.  Line 7 reads Chart.defaults with no check:
\* when Chart is not defined that raises ReferenceError and the script
\* stops there, before the listener of line 468 and the export of line 473.
RunChartsJs ==
    /\ scriptState["charts.js"] = "waiting"
    /\ ~domLoaded
    /\ IF Defined("Chart")
       THEN /\ scriptState' = [scriptState EXCEPT !["charts.js"] = "done"]
            /\ loadListeners' = Append(loadListeners, "initializeResponsiveCharts")
            /\ globals' = globals \cup {"VintageCharts"}
            /\ UNCHANGED uncaught
       ELSE /\ scriptState' = [scriptState EXCEPT !["charts.js"] = "raised"]
            /\ uncaught' = Append(uncaught, "ReferenceError")
            /\ UNCHANGED <<loadListeners, globals>>
    /\ lastCall' = [fn |-> "charts.js"]
    /\ UNCHANGED <<libraries, pageElements, initRan>>
    /\ UNCHANGED <<toastVars, formVars, calcVars, chartVars, resizeVars, amountVars, loadingVars>>

\* The browser fires DOMContentLoaded once both scripts have run; the
\* listeners run in the order they were added.  initializeResponsiveCharts
\* adds the resize listener.
PageLoaded ==
    /\ \A sc \in Scripts : scriptState[sc] # "waiting"
    /\ ~domLoaded
    /\ domLoaded' = TRUE
    /\ initRan' = StepsOf(loadListeners)
    /\ resizeListeners' = resizeListeners +
           Cardinality({k \in DOMAIN loadListeners :
                           loadListeners[k] = "initializeResponsiveCharts"})
    /\ lastCall' = [fn |-> "DOMContentLoaded"]
    /\ UNCHANGED <<resizeTimers, resizeTimeout, sinceResize, burstPasses>>
    /\ UNCHANGED <<libraries, pageElements, scriptState, loadListeners, globals, uncaught>>
    /\ UNCHANGED <<toastVars, formVars, calcVars, chartVars, amountVars, loadingVars>>

\* A page with any of the libraries, before either script has run.
InitLoad ==
    /\ ToastInit
    /\ FormInit
    /\ ChartInit
    /\ AmountInit
    /\ LoadingInit
    /\ CalcIdle
    /\ hasButton = TRUE
    /\ lastCall = Idle
    /\ libraries \in SUBSET AllLibraries
    /\ pageElements \in [forms : 0..MaxPageForms, tooltips : 0..MaxPageTooltips]
    /\ scriptState = [sc \in Scripts |-> "waiting"]
    /\ loadListeners = <<>>
    /\ globals = {}
    /\ initRan = <<>>
    /\ uncaught = <<>>

NextLoad ==
    \/ RunMainJs
    \/ RunChartsJs
    \/ PageLoaded

SpecLoad == InitLoad /\ [][NextLoad]_vars

---------------------------------------------------------------------------
(* C13 *)

StepsRun == {initRan[k].step : k \in DOMAIN initRan}

\* C13: whichever of Chart, feather and bootstrap the page lacks, neither
\* script raises while it runs, and once the page has loaded every
\* initialization step has run that needs no absent library: the form,
\* number, date and table steps always, the icon step with feather, the
\* tooltip step with bootstrap, the chart resize step with Chart.
C13_LoadNeverRaisesWhateverLibraryIsAbsent ==
    /\ uncaught = <<>>
    /\ \A sc \in Scripts : scriptState[sc] # "raised"
    /\ domLoaded =>
          /\ {"initializeForms", "initializeNumberFormatting",
               "initializeDateInputs", "initializeResponsiveTables"} \subseteq StepsRun
          /\ Defined("feather") => "feather.replace" \in StepsRun
          /\ Defined("bootstrap") => "initializeTooltips" \in StepsRun
          /\ Defined("Chart") => "initializeResponsiveCharts" \in StepsRun

===========================================================================
